---- MODULE Spec2Model ----
(***************************************************************************)
(* A model of the benchmark kernels of cpp-benches.cpp.                    *)
(*                                                                         *)
(* Each family of kernels has its own variables, actions and              *)
(* specification; the harness of a family calls its kernels one at a time. *)
(***************************************************************************)
EXTENDS Integers, Sequences, FiniteSets, TLC

VARIABLES
    \* division kernels (div64_templ and the kernels MAKE_DIV_BENCHES makes)
    portable,     \* the build: UARCH_BENCH_PORTABLE
    suffix,       \* the divisor width the kernels were generated for
    div_iters,    \* the iteration count the harness passes
    div_kernel,   \* the kernel that is running, "none" or "SIGFPE"
    div_k, div_sum, div_zero, div_d,   \* the locals of div64_templ
    div_ret       \* what each kernel returned, NoRet before it ran

VARIABLES
    \* linked lists (makeList, makeLists, linkedlist_sum, sum_counter, sum_sentinel)
    heap,         \* the list nodes allocated so far, by address
    init_pc,      \* where the initialisation of listOfLists is
    lists,        \* the vector makeLists builds; listOfLists once it returned
    ml_i,         \* makeLists: i
    ml_head, ml_size, ml_all_nodes, ml_cur,   \* makeList: head, size, all_nodes, cur
    list_iters,   \* the iteration count the harness passes
    ll_kernel,    \* the kernel that is running, "none" or "SIGSEGV"
    ll_pc,        \* linkedlist_sum: at the while, at the for, or inside SUM_IMPL
    ll_iters, ll_sum, ll_list_index,          \* linkedlist_sum: iters, sum, list_index
    s_list, s_sum, s_cur, s_i,                \* SUM_IMPL: list, sum, cur, i
    visits,       \* how often the running SUM_IMPL call read each node's value
    ll_ret        \* what each kernel returned, NoRet before it ran

listVars == <<heap, init_pc, lists, ml_i, ml_head, ml_size, ml_all_nodes, ml_cur,
              list_iters, ll_kernel, ll_pc, ll_iters, ll_sum, ll_list_index,
              s_list, s_sum, s_cur, s_i, visits, ll_ret>>

VARIABLES
    \* strided stores (strided_stores<T>)
    st_T,         \* sizeof(T): 1, 4 or 8
    st_size,      \* the size of the region, a power of two
    st_region,    \* the bytes of the region, by offset
    st_stride, st_mask,                \* args.stride, args.mask
    st_iters,     \* the iteration count the harness passes
    st_outside,   \* whether a store overwrote bytes outside the region
    st_kernel,    \* "none", "strided_stores" or "SIGSEGV"
    st_pc,        \* at the loop test, or before one of the four stores
    st_i, st_offset, st_base,          \* the locals i, offset, base (base as base - region)
    st_n,         \* how many of the four stores of this pass are done
    st_ret

storeVars == <<st_T, st_size, st_region, st_outside, st_stride, st_mask, st_iters, st_kernel,
               st_pc, st_i, st_offset, st_base, st_n, st_ret>>

VARIABLES
    \* portable_add_chain
    pac_itersu,   \* the iteration count the harness passes
    pac_pc,       \* "idle", "body", "check", "done" or "trap"
    pac_iters,    \* the local iters, an int64_t, as its 8 bytes
    pac_n,        \* how many of the four decrements of this pass are done
    pac_passes,   \* how many passes of the loop have been completed
    pac_ret

chainVars == <<pac_itersu, pac_pc, pac_iters, pac_n, pac_passes, pac_ret>>

VARIABLES
    \* crc8_bench and crc8
    crc_iters,    \* iters of crc8_bench
    crc_pc,       \* "idle", "do", "while", "test", "done" or "SIGSEGV"
    crc_acc,      \* the local crc of crc8_bench
    crc8_crc,     \* the local crc of crc8
    crc8_data,    \* how far data is past the start of the buffer
    crc_idx,      \* the index of the last table lookup, as a one-element tuple
    crc_ret

crcVars == <<crc_iters, crc_pc, crc_acc, crc8_crc, crc8_data, crc_idx, crc_ret>>

VARIABLES
    \* mul_chain and mul_chain4
    mc_data,      \* the array the kernels are called with; len is its length
    mc_kernel,    \* the kernel that is running, "idle" or "SIGSEGV"
    mc_i,
    mc_product,   \* product of mul_chain
    mc_p,         \* p1 .. p4 of mul_chain4
    mc_ret        \* what each kernel returned

mulVars == <<mc_data, mc_kernel, mc_i, mc_product, mc_p, mc_ret>>

VARIABLES
    \* add_indirect_inner and add_indirect_shift_inner
    ai_little,    \* whether the machine is little-endian
    ai_data,
    ai_offsets,   \* the offsets array; len is its length
    ai_kernel,    \* the kernel that is running, or "idle"
    ai_pc,        \* "body" or "test"
    ai_i,
    ai_sum1,
    ai_sum2,
    ai_two,       \* twooffsets of the last pass
    ai_adds,      \* per kernel and pass, the data indexes sum1 and sum2 added
    ai_reads,     \* per element of offsets, who read it in this call
    ai_ret        \* what each kernel returned

addVars == <<ai_little, ai_data, ai_offsets, ai_kernel, ai_pc, ai_i, ai_sum1,
             ai_sum2, ai_two, ai_adds, ai_reads, ai_ret>>

divVars == <<portable, suffix, div_iters, div_kernel, div_k, div_sum, div_zero,
             div_d, div_ret>>

vars == <<divVars, listVars, storeVars, chainVars, crcVars, mulVars, addVars>>

\* What the kernels of one family leave alone: the state of the others.
notDiv   == <<listVars, storeVars, chainVars, crcVars, mulVars, addVars>>
notList  == <<divVars, storeVars, chainVars, crcVars, mulVars, addVars>>
notStore == <<divVars, listVars, chainVars, crcVars, mulVars, addVars>>
notCrc   == <<divVars, listVars, storeVars, chainVars, mulVars, addVars>>
notMul   == <<divVars, listVars, storeVars, chainVars, crcVars, addVars>>
notAdd   == <<divVars, listVars, storeVars, chainVars, crcVars, mulVars>>
notChain == <<divVars, listVars, storeVars, crcVars, mulVars, addVars>>

\* A kernel returns a long, kept as its 8 bytes; a kernel that has not
\* returned has the empty tuple.
NoRet == << >>

(***************************************************************************)
(* Bounds of the model.                                                    *)
(***************************************************************************)
MaxIters == 3
\* cpp-benches.hpp sets the number of lists; the model builds this many.
LIST_COUNT == 2
\* The regions of the strided stores have 8 .. 2^MaxRegionLog bytes.
MaxRegionLog == 4
\* crc8_bench has a buffer of 4096 bytes; the model's has BufSize.
BufSize == 3
\* The arrays of the multiply chains have up to 4 * MaxQuads elements (the
\* program's have 4096).
MaxQuads == 2
\* The offsets arrays have up to 2 * MaxPairs elements and index a data
\* array of DataLen elements (the program's have 4096 each).
MaxPairs == 2
DataLen == 2

(***************************************************************************)
(* Machine integers.  A value of an unsigned type of n bytes is the tuple  *)
(* of its n bytes (each in 0..255), least significant first; arithmetic is *)
(* computed byte by byte with carries, so it wraps modulo 2^(8n) as the    *)
(* machine's does.                                                         *)
(***************************************************************************)
Byte == 0..255

RECURSIVE Pow2(_)
Pow2(n) == IF n = 0 THEN 1 ELSE 2 * Pow2(n - 1)

\* A value is kept as a tuple: concatenation with the empty tuple turns the
\* function f on 1..n into the tuple of its values.
Vec(f) == f \o << >>

\* The element of a one-element set.  The operators below bind their operands
\* with x \in {a}, so that an operand is computed once, before the operator
\* is applied to it.
Only(S) == CHOOSE r \in S : TRUE

Zeros(n) == Vec([i \in 1..n |-> 0])

\* The n-byte value of a natural number below 2^31.
FromNat(x, n) ==
    Vec([i \in 1..n |-> IF i > 4 THEN 0 ELSE (x \div Pow2(8 * (i - 1))) % 256])

\* The n-byte value of a hexadecimal literal, given as its 2n digits, most
\* significant first.
FromHex(digits) ==
    Vec([i \in 1..(Len(digits) \div 2) |->
            16 * digits[Len(digits) - 2 * i + 1] + digits[Len(digits) - 2 * i + 2]])

\* Whether the value is below 2^31, and then the natural number it is.
IsSmall(b) == (\A i \in 1..Len(b) : i > 4 => b[i] = 0) /\ (Len(b) >= 4 => b[4] < 128)
ToNat(b) ==
    Only({(IF Len(x) >= 1 THEN x[1] ELSE 0) + (IF Len(x) >= 2 THEN 256 * x[2] ELSE 0)
          + (IF Len(x) >= 3 THEN 65536 * x[3] ELSE 0)
          + (IF Len(x) >= 4 THEN 16777216 * x[4] ELSE 0) : x \in {b}})

\* Zero extension or truncation to n bytes (a conversion between unsigned
\* types).
Resize(b, n) == Only({Vec([i \in 1..n |-> IF i <= Len(x) THEN x[i] ELSE 0]) : x \in {b}})

\* Bitwise operators on bytes, bit by bit, and on values, byte by byte.
BitOf(x, k) == (x \div Pow2(k)) % 2
RECURSIVE ByteAndFrom(_, _, _)
ByteAndFrom(x, y, k) ==
    IF k > 7 THEN 0
    ELSE Pow2(k) * BitOf(x, k) * BitOf(y, k) + ByteAndFrom(x, y, k + 1)
ByteAnd(x, y) == ByteAndFrom(x, y, 0)
ByteOr(x, y)  == x + y - ByteAnd(x, y)
ByteXor(x, y) == x + y - 2 * ByteAnd(x, y)

BitAnd(a, b) ==
    Only({Vec([i \in 1..Len(x) |-> ByteAnd(x[i], y[i])]) : x \in {a}, y \in {b}})
BitOr(a, b) ==
    Only({Vec([i \in 1..Len(x) |-> ByteOr(x[i], y[i])]) : x \in {a}, y \in {b}})
BitNot(a) == Only({Vec([i \in 1..Len(x) |-> 255 - x[i]]) : x \in {a}})

\* a << 8n and a >> 8n on Len(a) bytes, and a << k for k in 0..7.
ShlBytes(a, n) ==
    Only({Vec([i \in 1..Len(x) |-> IF i > n THEN x[i - n] ELSE 0]) : x \in {a}})
ShrBytes(a, n) ==
    Only({Vec([i \in 1..Len(x) |-> IF i + n <= Len(x) THEN x[i + n] ELSE 0]) : x \in {a}})
ShlBits(a, k) ==
    Only({Vec([i \in 1..Len(x) |->
                ((x[i] * Pow2(k)) % 256)
                + (IF i > 1 THEN (x[i - 1] * Pow2(k)) \div 256 ELSE 0)])
          : x \in {a}})

\* a + b + c modulo 2^(8 Len(a)), c the carry in.  The carry into byte i is 1
\* when some lower byte j makes a carry (byte 0 stands for the carry in) and
\* every byte between j and i passes it on.
CarryInto(x, y, c, i) ==
    IF \E j \in 0..(i - 1) :
           /\ IF j = 0 THEN c = 1 ELSE x[j] + y[j] >= 256
           /\ \A k \in (j + 1)..(i - 1) : x[k] + y[k] = 255
    THEN 1 ELSE 0
AddC(a, b, c) ==
    Only({Vec([i \in 1..Len(x) |-> (x[i] + y[i] + CarryInto(x, y, c, i)) % 256])
          : x \in {a}, y \in {b}})
Add(a, b) == AddC(a, b, 0)
Sub(a, b) == AddC(a, BitNot(b), 1)
Inc(a) == AddC(a, Zeros(Len(a)), 1)
Dec(a) == Sub(a, FromNat(1, Len(a)))

\* a * m modulo 2^(8 Len(a)) for a byte m: the low bytes of the products
\* a[i] * m, plus their high bytes one place up.
MulByte(a, m) ==
    Only({Add(Vec([i \in 1..Len(x) |-> (x[i] * y) % 256]),
              ShlBytes(Vec([i \in 1..Len(x) |-> (x[i] * y) \div 256]), 1))
          : x \in {a}, y \in {m}})

\* a * b modulo 2^(8 Len(a)): the sum of the rows a * b[i] * 256^(i-1).
RECURSIVE MulFrom(_, _, _)
MulFrom(a, b, i) ==
    IF i > Len(b) THEN Zeros(Len(a))
    ELSE Add(ShlBytes(MulByte(a, b[i]), i - 1), MulFrom(a, b, i + 1))
Mul(a, b) == Only({MulFrom(x, y, 1) : x \in {a}, y \in {b}})

\* Unsigned a < b: they differ, and at the highest byte where they differ a's
\* is the smaller.
ULess(a, b) ==
    Only({\E i \in 1..Len(x) : x[i] < y[i] /\ \A j \in (i + 1)..Len(x) : x[j] = y[j]
          : x \in {a}, y \in {b}})
ULeq(a, b) == ~ULess(b, a)

IsZero(a) == Only({\A i \in 1..Len(x) : x[i] = 0 : x \in {a}})

\* Unsigned quotient a / d for d # 0, by long division in base 256.  The
\* running remainder has one byte more than the operands; each quotient byte
\* is found bit by bit, from bit 7 down, by compare and subtract.
RECURSIVE QuotFrom(_, _, _)
QuotFrom(r0, d, k) ==
    IF k < 0 THEN 0
    ELSE Only({IF ULeq(t, r) THEN Pow2(k) + QuotFrom(Sub(r, t), d, k - 1)
               ELSE QuotFrom(r, d, k - 1) : r \in {r0}, t \in {ShlBits(d, k)}})
QuotByte(r, d) == QuotFrom(r, d, 7)
RECURSIVE DivFrom(_, _, _, _)
DivFrom(a, d, i, r0) ==
    IF i = 0 THEN << >>
    ELSE LET next(r1, q) == DivFrom(a, d, i - 1, Sub(r1, MulByte(d, q))) \o <<q>>
             step(r1) == Only({next(r1, q) : q \in {QuotByte(r1, d)}})
         IN  Only({step(r1) : r1 \in {[ShlBytes(r0, 1) EXCEPT ![1] = a[i]]}})
UDiv(a, d) ==
    Only({DivFrom(x, y, Len(x), Zeros(Len(x) + 1)) : x \in {a}, y \in {Resize(d, Len(a) + 1)}})

(***************************************************************************)
(* Division kernels.                                                       *)
(***************************************************************************)
U64(n) == FromNat(n, 8)

\* The long of an int: sign extension to 8 bytes, in two's complement.
Long(n) == IF n >= 0 THEN FromNat(n, 8) ELSE BitNot(FromNat(-n - 1, 8))

\* util.hpp: a value that is zero but that the compiler cannot prove zero.
always_zero == U64(0)

\* 0x12345678u / a
div32_64(a) == UDiv(Resize(FromHex(<<1, 2, 3, 4, 5, 6, 7, 8>>), 8), a)

\* 0x1234567812345678ull / a
div64_64(a) == UDiv(FromHex(<<1, 2, 3, 4, 5, 6, 7, 8, 1, 2, 3, 4, 5, 6, 7, 8>>), a)

\* x86 div: the 128-bit rdx:rax = high:low by the 64-bit operand, quotient
\* in rax. The portable build returns 1.
div128_64(a) ==
    IF portable THEN U64(1)
    ELSE LET high == U64(123)
             low  == U64(2)
             a1   == BitOr(a, FromHex(<<15, 2, 3, 4, 5, 6, 7, 8, 9, 0, 1, 2, 3, 4, 5, 6>>))
         IN  Resize(UDiv(low \o high, Resize(a1, 16)), 8)

DivSuffixes == {"32_64", "64_64", "128_64"}

div(sfx, a) ==
    CASE sfx = "32_64"  -> div32_64(a)
      [] sfx = "64_64"  -> div64_64(a)
      [] sfx = "128_64" -> div128_64(a)

\* The four kernels of one width: their template arguments.
DivKernels == {"div_lat_inline", "div_tput_inline", "div_lat_noinline", "div_tput_noinline"}
forcedep(kern) == kern \in {"div_lat_inline", "div_lat_noinline"}
noinline(kern) == kern \in {"div_lat_noinline", "div_tput_noinline"}

\* no_inline<F>: the function F = div<sfx> behind a call.
no_inline(sfx, a) == div(sfx, a)

\* F(d), F the first template argument of the kernel.
DivF(kern, sfx, a) == IF noinline(kern) THEN no_inline(sfx, a) ELSE div(sfx, a)

\* A divisor of 0 is undefined for the C++ operator / (div128_64 makes its
\* operand non-zero).
DivFaults(sfx, a) == sfx \in {"32_64", "64_64"} /\ IsZero(a)

\* uint64_t d = k; if (forcedep) d += (sum & zero);
DivisorBug(fd, k, sum, zero) == IF fd THEN Add(k, BitOr(sum, zero)) ELSE k
Divisor(fd, k, sum, zero) == IF fd THEN Add(k, BitAnd(sum, zero)) ELSE k

DivIdle ==
    /\ portable = FALSE
    /\ suffix = "32_64"
    /\ div_iters = U64(0)
    /\ div_kernel = "none"
    /\ div_k = U64(0)
    /\ div_sum = U64(0)
    /\ div_zero = U64(0)
    /\ div_d = U64(0)
    /\ div_ret = [kern \in DivKernels |-> NoRet]

DivStart ==
    /\ portable \in BOOLEAN
    /\ suffix \in DivSuffixes
    /\ div_iters \in {U64(n) : n \in 0..MaxIters}
    /\ div_kernel = "none"
    /\ div_k = U64(0)
    /\ div_sum = U64(0)
    /\ div_zero = U64(0)
    /\ div_d = U64(0)
    /\ div_ret = [kern \in DivKernels |-> NoRet]

\* The harness calls a kernel: the declarations before the loop.
DivCall(kern) ==
    /\ div_kernel = "none"
    /\ div_ret[kern] = NoRet
    /\ div_kernel' = kern
    /\ div_sum' = U64(0)
    /\ div_zero' = always_zero
    /\ div_k' = U64(1)
    /\ div_d' = U64(0)
    /\ UNCHANGED <<portable, suffix, div_iters, div_ret>>
    /\ UNCHANGED notDiv

\* One pass of the loop of div64_templ.
DivLoop ==
    /\ div_kernel \in DivKernels
    /\ ULeq(div_k, div_iters)
    /\ LET d == Divisor(forcedep(div_kernel), div_k, div_sum, div_zero)
       IN  /\ div_d' = d
           /\ IF DivFaults(suffix, d)
              THEN div_kernel' = "SIGFPE" /\ UNCHANGED <<div_sum, div_k>>
              ELSE /\ div_sum' = Add(div_sum, DivF(div_kernel, suffix, d))
                   /\ div_k' = Inc(div_k)
                   /\ UNCHANGED div_kernel
    /\ UNCHANGED <<portable, suffix, div_iters, div_zero, div_ret>>
    /\ UNCHANGED notDiv

\* return (long)sum
DivReturn ==
    /\ div_kernel \in DivKernels
    /\ ~ULeq(div_k, div_iters)
    /\ div_ret' = [div_ret EXCEPT ![div_kernel] = div_sum]
    /\ div_kernel' = "none"
    /\ UNCHANGED <<portable, suffix, div_iters, div_k, div_sum, div_zero, div_d>>
    /\ UNCHANGED notDiv

DivNext ==
    \/ \E kern \in DivKernels : DivCall(kern)
    \/ DivLoop
    \/ DivReturn

(***************************************************************************)
(* Linked lists.  A node lives at an address, a positive number; NULL is   *)
(* the null pointer.                                                       *)
(***************************************************************************)
NULL == 0
NODE_COUNT == 5

ListKernels == {"linkedlist_counter", "linkedlist_sentinel"}

\* new list_node[size](): size value-initialised nodes at consecutive
\* addresses, the first at address at.
NewArray(at, size) ==
    [a \in at..(at + size - 1) |-> [value |-> 0, next |-> NULL]]

\* The addresses the heap has in use, and the next one after them.
Brk(h) == Cardinality(DOMAIN h) + 1

\* while (--size > 0): the test, on the value of size before the decrement.
KeepLinkingBug(size) == size > 0
KeepLinking(size) == size - 1 > 0

NoHead == [size |-> 0, first |-> NULL]

ListIdle ==
    /\ heap = << >>
    /\ init_pc = "done"
    /\ lists = << >>
    /\ ml_i = 0
    /\ ml_head = NoHead
    /\ ml_size = 0
    /\ ml_all_nodes = NULL
    /\ ml_cur = NULL
    /\ list_iters = 0
    /\ ll_kernel = "none"
    /\ ll_pc = "while"
    /\ ll_iters = 0
    /\ ll_sum = 0
    /\ ll_list_index = 0
    /\ s_list = NoHead
    /\ s_sum = 0
    /\ s_cur = NULL
    /\ s_i = 0
    /\ visits = << >>
    /\ ll_ret = [kern \in ListKernels |-> NoRet]

\* The program starts: the initialiser of listOfLists enters makeLists.
ListStart ==
    /\ heap = << >>
    /\ init_pc = "makeLists"
    /\ lists = << >>
    /\ ml_i = 0
    /\ ml_head = NoHead
    /\ ml_size = 0
    /\ ml_all_nodes = NULL
    /\ ml_cur = NULL
    /\ list_iters \in 1..MaxIters
    /\ ll_kernel = "none"
    /\ ll_pc = "while"
    /\ ll_iters = 0
    /\ ll_sum = 0
    /\ ll_list_index = 0
    /\ s_list = NoHead
    /\ s_sum = 0
    /\ s_cur = NULL
    /\ s_i = 0
    /\ visits = << >>
    /\ ll_ret = [kern \in ListKernels |-> NoRet]

llLocals == <<list_iters, ll_kernel, ll_pc, ll_iters, ll_sum, ll_list_index,
              s_list, s_sum, s_cur, s_i, visits, ll_ret>>
mlLocals == <<ml_head, ml_size, ml_all_nodes, ml_cur>>

\* makeLists, the loop: makeList(NODE_COUNT) is called and runs up to its
\* while loop.
MakeListCall ==
    /\ init_pc = "makeLists"
    /\ ml_i < LIST_COUNT
    /\ LET size == NODE_COUNT
           all_nodes == Brk(heap)
           first == all_nodes + size
       IN  IF size # 0
           THEN /\ heap' = heap @@ NewArray(all_nodes, size)
                              @@ (first :> [value |-> 1, next |-> NULL])
                /\ ml_head' = [size |-> size, first |-> first]
                /\ ml_all_nodes' = all_nodes
                /\ ml_cur' = first
                /\ ml_size' = size
           ELSE /\ ml_head' = [size |-> size, first |-> NULL]
                /\ ml_size' = size
                /\ UNCHANGED <<heap, ml_all_nodes, ml_cur>>
    /\ init_pc' = IF NODE_COUNT # 0 THEN "makeList" ELSE "push_back"
    /\ UNCHANGED <<lists, ml_i, llLocals>>
    /\ UNCHANGED notList

\* makeList, one pass of while (--size > 0).
MakeListLink ==
    /\ init_pc = "makeList"
    /\ KeepLinking(ml_size)
    /\ ml_size' = ml_size - 1
    /\ LET next == ml_all_nodes
       IN  /\ ml_all_nodes' = ml_all_nodes + 1
           /\ heap' = [heap EXCEPT ![ml_cur].next = next]
           /\ ml_cur' = next
    /\ UNCHANGED <<init_pc, lists, ml_i, ml_head, llLocals>>
    /\ UNCHANGED notList

\* makeList, the while loop ends.
MakeListExit ==
    /\ init_pc = "makeList"
    /\ ~KeepLinking(ml_size)
    /\ ml_size' = ml_size - 1
    /\ init_pc' = "push_back"
    /\ UNCHANGED <<heap, lists, ml_i, ml_head, ml_all_nodes, ml_cur, llLocals>>
    /\ UNCHANGED notList

\* makeLists: lists.push_back(makeList(NODE_COUNT)); i++
MakeListsPush ==
    /\ init_pc = "push_back"
    /\ lists' = Append(lists, ml_head)
    /\ ml_i' = ml_i + 1
    /\ init_pc' = "makeLists"
    /\ UNCHANGED <<heap, mlLocals, llLocals>>
    /\ UNCHANGED notList

\* makeLists returns: listOfLists is initialised and main can run.
MakeListsReturn ==
    /\ init_pc = "makeLists"
    /\ ~(ml_i < LIST_COUNT)
    /\ init_pc' = "done"
    /\ UNCHANGED <<heap, lists, ml_i, mlLocals, llLocals>>
    /\ UNCHANGED notList

listBuilt == <<heap, init_pc, lists, ml_i, mlLocals>>

\* The harness calls linkedlist_counter or linkedlist_sentinel.
ListCall(kern) ==
    /\ init_pc = "done"
    /\ ll_kernel = "none"
    /\ ll_ret[kern] = NoRet
    /\ ll_kernel' = kern
    /\ ll_iters' = list_iters
    /\ ll_sum' = 0
    /\ ll_pc' = "while"
    /\ UNCHANGED <<list_iters, ll_list_index, s_list, s_sum, s_cur, s_i, visits, ll_ret>>
    /\ UNCHANGED listBuilt
    /\ UNCHANGED notList

\* linkedlist_sum: while (iters-- > 0), the loop is entered.
ListWhile ==
    /\ ll_kernel \in ListKernels
    /\ ll_pc = "while"
    /\ ll_iters > 0
    /\ ll_iters' = ll_iters - 1
    /\ ll_list_index' = 0
    /\ ll_pc' = "for"
    /\ UNCHANGED <<list_iters, ll_kernel, ll_sum, s_list, s_sum, s_cur, s_i, visits, ll_ret>>
    /\ UNCHANGED listBuilt
    /\ UNCHANGED notList

\* linkedlist_sum: the for loop calls SUM_IMPL(listOfLists[list_index]),
\* which runs up to its loop.
ListSumCall ==
    /\ ll_kernel \in ListKernels
    /\ ll_pc = "for"
    /\ ll_list_index < LIST_COUNT
    /\ s_list' = lists[ll_list_index + 1]
    /\ s_sum' = 0
    /\ s_cur' = lists[ll_list_index + 1].first
    /\ s_i' = 0
    /\ visits' = [a \in DOMAIN heap |-> 0]
    /\ ll_pc' = "sum"
    /\ UNCHANGED <<list_iters, ll_kernel, ll_iters, ll_sum, ll_list_index, ll_ret>>
    /\ UNCHANGED listBuilt
    /\ UNCHANGED notList

\* The loop test of SUM_IMPL: i < list.size in sum_counter, cur in
\* sum_sentinel.
SumTest ==
    IF ll_kernel = "linkedlist_counter" THEN s_i < s_list.size ELSE s_cur # NULL

\* One pass of the loop of sum_counter or sum_sentinel.  sum_counter does
\* not test cur: with cur null the read of cur->value faults.
SumLoop ==
    /\ ll_kernel \in ListKernels
    /\ ll_pc = "sum"
    /\ SumTest
    /\ IF s_cur = NULL
       THEN /\ ll_kernel' = "SIGSEGV"
            /\ UNCHANGED <<s_sum, s_cur, s_i, visits>>
       ELSE /\ s_sum' = s_sum + heap[s_cur].value
            /\ visits' = [visits EXCEPT ![s_cur] = @ + 1]
            /\ s_cur' = heap[s_cur].next
            /\ s_i' = IF ll_kernel = "linkedlist_counter" THEN s_i + 1 ELSE s_i
            /\ UNCHANGED ll_kernel
    /\ UNCHANGED <<list_iters, ll_pc, ll_iters, ll_sum, ll_list_index, s_list, ll_ret>>
    /\ UNCHANGED listBuilt
    /\ UNCHANGED notList

\* SUM_IMPL returns: sum += SUM_IMPL(...); list_index++
SumReturn ==
    /\ ll_kernel \in ListKernels
    /\ ll_pc = "sum"
    /\ ~SumTest
    /\ ll_sum' = ll_sum + s_sum
    /\ ll_list_index' = ll_list_index + 1
    /\ ll_pc' = "for"
    /\ UNCHANGED <<list_iters, ll_kernel, ll_iters, s_list, s_sum, s_cur, s_i, visits, ll_ret>>
    /\ UNCHANGED listBuilt
    /\ UNCHANGED notList

\* linkedlist_sum: the for loop ends.
ListForExit ==
    /\ ll_kernel \in ListKernels
    /\ ll_pc = "for"
    /\ ~(ll_list_index < LIST_COUNT)
    /\ ll_pc' = "while"
    /\ UNCHANGED <<list_iters, ll_kernel, ll_iters, ll_sum, ll_list_index,
                   s_list, s_sum, s_cur, s_i, visits, ll_ret>>
    /\ UNCHANGED listBuilt
    /\ UNCHANGED notList

\* linkedlist_sum: the while loop ends, return sum.
ListReturn ==
    /\ ll_kernel \in ListKernels
    /\ ll_pc = "while"
    /\ ~(ll_iters > 0)
    /\ ll_iters' = ll_iters - 1
    /\ ll_ret' = [ll_ret EXCEPT ![ll_kernel] = Long(ll_sum)]
    /\ ll_kernel' = "none"
    /\ UNCHANGED <<list_iters, ll_pc, ll_sum, ll_list_index, s_list, s_sum, s_cur, s_i, visits>>
    /\ UNCHANGED listBuilt
    /\ UNCHANGED notList

ListNext ==
    \/ MakeListCall
    \/ MakeListLink
    \/ MakeListExit
    \/ MakeListsPush
    \/ MakeListsReturn
    \/ \E kern \in ListKernels : ListCall(kern)
    \/ ListWhile
    \/ ListSumCall
    \/ SumLoop
    \/ SumReturn
    \/ ListForExit
    \/ ListReturn

\* The nodes of the chain that starts at address a, in order; the chain ends
\* at a null link (a chain with a cycle is cut after Brk(h) nodes, which is
\* more than the heap has).
RECURSIVE ChainFrom(_, _, _)
ChainFrom(h, a, n) ==
    IF a = NULL \/ n = 0 THEN << >> ELSE <<a>> \o ChainFrom(h, h[a].next, n - 1)
Chain(h, a) == ChainFrom(h, a, Brk(h))

(***************************************************************************)
(* Strided stores.  Addresses are kept relative to args.region, modulo     *)
(* 2^64.                                                                   *)
(***************************************************************************)
\* The strides the harness may pass: small ones, and ones whose products
\* wrap modulo 2^64.
Strides ==
    {U64(n) : n \in {1, 2, 3, 4, 8, 16}}
    \cup {FromHex(<<4, 0, 0, 0, 0, 0, 0, 0, 0, 0, 0, 0, 0, 0, 0, 1>>),
          FromHex(<<15, 15, 15, 15, 15, 15, 15, 15, 15, 15, 15, 15, 15, 15, 15, 15>>)}

RegionSizes == {Pow2(n) : n \in 3..MaxRegionLog}

\* uint64_t offset = i * args.stride & mask;
OffsetBug(i, stride, mask) == Mul(i, BitAnd(stride, mask))
Offset(i, stride, mask) == BitAnd(Mul(i, stride), mask)

\* Whether the T bytes at base lie inside the region.
InRegion(base, T, size) == ULess(base, U64(size)) /\ ToNat(base) + T <= size

StoreIdle ==
    /\ st_T = 1
    /\ st_size = 8
    /\ st_region = << >>
    /\ st_outside = FALSE
    /\ st_stride = U64(0)
    /\ st_mask = U64(0)
    /\ st_iters = U64(0)
    /\ st_kernel = "none"
    /\ st_pc = "loop"
    /\ st_i = U64(0)
    /\ st_offset = U64(0)
    /\ st_base = U64(0)
    /\ st_n = 0
    /\ st_ret = NoRet

\* The harness made a region of a power of two bytes, all 255, and the
\* mem_args for it.
StoreStart ==
    /\ st_T \in {1, 4, 8}
    /\ st_size \in RegionSizes
    /\ st_region = [a \in 0..(st_size - 1) |-> 255]
    /\ st_outside = FALSE
    /\ st_stride \in Strides
    /\ st_mask = U64(st_size - 1)
    /\ st_iters \in {U64(n) : n \in 0..(4 * MaxIters)}
    /\ st_kernel = "none"
    /\ st_pc = "loop"
    /\ st_i = U64(0)
    /\ st_offset = U64(0)
    /\ st_base = U64(0)
    /\ st_n = 0
    /\ st_ret = NoRet

stArgs == <<st_T, st_size, st_stride, st_mask, st_iters>>

\* The harness calls strided_stores<T>.
StoreCall ==
    /\ st_kernel = "none"
    /\ st_ret = NoRet
    /\ st_kernel' = "strided_stores"
    /\ st_i' = U64(0)
    /\ st_pc' = "loop"
    /\ UNCHANGED <<stArgs, st_region, st_outside, st_offset, st_base, st_n, st_ret>>
    /\ UNCHANGED notStore

\* The loop is entered: offset and base are computed.
StoreLoop ==
    /\ st_kernel = "strided_stores"
    /\ st_pc = "loop"
    /\ ULess(st_i, st_iters)
    /\ st_offset' = Offset(st_i, st_stride, st_mask)
    /\ st_base' = Offset(st_i, st_stride, st_mask)
    /\ st_n' = 0
    /\ st_pc' = "store"
    /\ UNCHANGED <<stArgs, st_region, st_outside, st_kernel, st_i, st_ret>>
    /\ UNCHANGED notStore

\* *(T *)base = 0, then base += args.stride after each of the first three
\* stores and i += 4 after the fourth.  A store outside the region is
\* undefined: it faults, or it overwrites what lies there and the kernel
\* goes on.
Store ==
    /\ st_kernel = "strided_stores"
    /\ st_pc = "store"
    /\ \E faults \in BOOLEAN :
          /\ faults => ~InRegion(st_base, st_T, st_size)
          /\ IF faults
             THEN /\ st_kernel' = "SIGSEGV"
                  /\ UNCHANGED <<st_region, st_outside, st_n, st_base, st_i, st_pc>>
             ELSE /\ IF InRegion(st_base, st_T, st_size)
                     THEN /\ st_region' =
                                [a \in 0..(st_size - 1) |->
                                    IF a >= ToNat(st_base) /\ a < ToNat(st_base) + st_T
                                    THEN 0 ELSE st_region[a]]
                          /\ UNCHANGED st_outside
                     ELSE /\ st_outside' = TRUE
                          /\ UNCHANGED st_region
                  /\ st_n' = st_n + 1
                  /\ IF st_n < 3
                     THEN /\ st_base' = Add(st_base, st_stride)
                          /\ UNCHANGED <<st_i, st_pc>>
                     ELSE /\ st_i' = Add(st_i, U64(4))
                          /\ st_pc' = "loop"
                          /\ UNCHANGED st_base
                  /\ UNCHANGED st_kernel
    /\ UNCHANGED <<stArgs, st_offset, st_ret>>
    /\ UNCHANGED notStore

\* The loop ends: return (long)args.region[0], a char.
StoreReturn ==
    /\ st_kernel = "strided_stores"
    /\ st_pc = "loop"
    /\ ~ULess(st_i, st_iters)
    /\ st_ret' = Long(IF st_region[0] < 128 THEN st_region[0] ELSE st_region[0] - 256)
    /\ st_kernel' = "none"
    /\ UNCHANGED <<stArgs, st_region, st_outside, st_pc, st_i, st_offset, st_base, st_n>>
    /\ UNCHANGED notStore

StoreNext ==
    \/ StoreCall
    \/ StoreLoop
    \/ Store
    \/ StoreReturn

(***************************************************************************)
(* portable_add_chain.  The counter is an int64_t in two's complement.     *)
(***************************************************************************)
INT64_MIN == FromHex(<<8, 0, 0, 0, 0, 0, 0, 0, 0, 0, 0, 0, 0, 0, 0, 0>>)

\* opt-control.hpp: modify makes the compiler take the value as changed by
\* unknown code; it emits no instruction and the value stays what it was.
modify(x) == x

\* The counts the harness may pass: small ones, and ones from 2^63 on, which
\* the conversion to int64_t makes negative.
ChainCounts ==
    {U64(n) : n \in 0..(4 * MaxIters)} \cup {Add(INT64_MIN, U64(n)) : n \in 0..5}

\* The body of the loop is four pairs modify(iters); --iters.
PassDoneBug(n) == n = 3
PassDone(n) == n = 4

\* while (iters != 0)
LoopAgainBug(iters) == iters[8] < 128 /\ ~IsZero(iters)
LoopAgain(iters) == ~IsZero(iters)

ChainIdle ==
    /\ pac_itersu = U64(0)
    /\ pac_pc = "idle"
    /\ pac_iters = U64(0)
    /\ pac_n = 0
    /\ pac_passes = 0
    /\ pac_ret = << 0 >>

ChainStart ==
    /\ pac_itersu \in ChainCounts
    /\ pac_pc = "idle"
    /\ pac_iters = U64(0)
    /\ pac_n = 0
    /\ pac_passes = 0
    /\ pac_ret = NoRet

\* The harness calls the kernel: int64_t iters = itersu keeps the bits.
AddChainCall ==
    /\ pac_pc = "idle"
    /\ pac_ret = NoRet
    /\ pac_iters' = pac_itersu
    /\ pac_n' = 0
    /\ pac_pc' = "body"
    /\ UNCHANGED <<pac_itersu, pac_passes, pac_ret>>
    /\ UNCHANGED notChain

\* modify(iters); --iters.  Decrementing INT64_MIN overflows, which is
\* undefined: the build traps (-ftrapv) or the value wraps to INT64_MAX.
AddChainDec ==
    /\ pac_pc = "body"
    /\ ~PassDone(pac_n)
    /\ \E traps \in BOOLEAN :
          /\ traps => modify(pac_iters) = INT64_MIN
          /\ IF traps
             THEN pac_pc' = "trap" /\ UNCHANGED <<pac_iters, pac_n>>
             ELSE /\ pac_iters' = Dec(modify(pac_iters))
                  /\ pac_n' = pac_n + 1
                  /\ UNCHANGED pac_pc
    /\ UNCHANGED <<pac_itersu, pac_passes, pac_ret>>
    /\ UNCHANGED notChain

\* The body is done: the loop test follows.
AddChainPass ==
    /\ pac_pc = "body"
    /\ PassDone(pac_n)
    /\ pac_pc' = "check"
    /\ pac_passes' = pac_passes + 1
    /\ UNCHANGED <<pac_itersu, pac_iters, pac_n, pac_ret>>
    /\ UNCHANGED notChain

\* while (iters != 0): another pass.  The model follows a call for
\* MaxIters + 1 passes.
AddChainAgain ==
    /\ pac_pc = "check"
    /\ LoopAgain(pac_iters)
    /\ pac_passes < MaxIters + 1
    /\ pac_n' = 0
    /\ pac_pc' = "body"
    /\ UNCHANGED <<pac_itersu, pac_iters, pac_passes, pac_ret>>
    /\ UNCHANGED notChain

\* The loop ends: return iters.
AddChainReturn ==
    /\ pac_pc = "check"
    /\ ~LoopAgain(pac_iters)
    /\ pac_ret' = pac_iters
    /\ pac_pc' = "done"
    /\ UNCHANGED <<pac_itersu, pac_iters, pac_n, pac_passes>>
    /\ UNCHANGED notChain

AddChainNext ==
    \/ AddChainCall
    \/ AddChainDec
    \/ AddChainPass
    \/ AddChainAgain
    \/ AddChainReturn

\* The value modulo 4 (its two low bits).
Mod4(b) == b[1] % 4

(***************************************************************************)
(* crc8 and crc8_bench.                                                    *)
(***************************************************************************)
U32(n) == FromNat(n, 4)

\* uint8_t crc8_table[256] = {}
crc8_tableBug == [n \in 0..255 |-> IF n = 255 THEN 1 ELSE 0]
crc8_table == [n \in 0..255 |-> 0]

\* The bytes the buffer may hold: 0, 255 and every byte with one bit set.
BufBytes == {0, 255} \cup {Pow2(k) : k \in 0..7}

\* crc ^ *data: the byte is promoted to the width of crc.
CrcIndex(crc, b) == ToNat(<<ByteXor(crc[1], b), crc[2], crc[3], crc[4]>>)

CrcIdle ==
    /\ crc_iters = U64(0)
    /\ crc_pc = "idle"
    /\ crc_acc = U32(0)
    /\ crc8_crc = U32(0)
    /\ crc8_data = 0
    /\ crc_idx = << >>
    /\ crc_ret = << 0 >>

CrcStart ==
    /\ crc_iters \in {U64(n) : n \in 1..MaxIters}
    /\ crc_pc = "idle"
    /\ crc_acc = U32(0)
    /\ crc8_crc = U32(0)
    /\ crc8_data = 0
    /\ crc_idx = << >>
    /\ crc_ret = NoRet

\* The harness calls crc8_bench: uint32_t crc = 0.
CrcBenchCall ==
    /\ crc_pc = "idle"
    /\ crc_ret = NoRet
    /\ crc_acc' = U32(0)
    /\ crc_pc' = "do"
    /\ UNCHANGED <<crc_iters, crc8_crc, crc8_data, crc_idx, crc_ret>>
    /\ UNCHANGED notCrc

\* crc8(crc, buf, sizeof(buf)) is called: crc &= 0xff, data at the start.
Crc8Call ==
    /\ crc_pc = "do"
    /\ crc8_crc' = BitAnd(crc_acc, U32(255))
    /\ crc8_data' = 0
    /\ crc_pc' = "while"
    /\ UNCHANGED <<crc_iters, crc_acc, crc_idx, crc_ret>>
    /\ UNCHANGED notCrc

\* crc = crc8_table[crc ^ *data++].  Nothing has written the buffer: the
\* byte read is any of BufBytes.  An index outside the table is a fault.
Crc8Lookup ==
    /\ crc_pc = "while"
    /\ crc8_data < BufSize
    /\ \E b \in BufBytes :
          LET idx == CrcIndex(crc8_crc, b)
          IN  /\ crc_idx' = <<idx>>
              /\ IF idx \in DOMAIN crc8_table
                 THEN /\ crc8_crc' = U32(crc8_table[idx])
                      /\ crc8_data' = crc8_data + 1
                      /\ UNCHANGED crc_pc
                 ELSE crc_pc' = "SIGSEGV" /\ UNCHANGED <<crc8_crc, crc8_data>>
    /\ UNCHANGED <<crc_iters, crc_acc, crc_ret>>
    /\ UNCHANGED notCrc

\* data has reached end: crc8 returns crc, which crc8_bench keeps.
Crc8Return ==
    /\ crc_pc = "while"
    /\ ~(crc8_data < BufSize)
    /\ crc_acc' = crc8_crc
    /\ crc_pc' = "test"
    /\ UNCHANGED <<crc_iters, crc8_crc, crc8_data, crc_idx, crc_ret>>
    /\ UNCHANGED notCrc

\* while (--iters != 0): another call of crc8.
CrcBenchAgain ==
    /\ crc_pc = "test"
    /\ ~IsZero(Dec(crc_iters))
    /\ crc_iters' = Dec(crc_iters)
    /\ crc_pc' = "do"
    /\ UNCHANGED <<crc_acc, crc8_crc, crc8_data, crc_idx, crc_ret>>
    /\ UNCHANGED notCrc

\* --iters is 0: return crc, a uint32_t, as a long.
CrcBenchReturn ==
    /\ crc_pc = "test"
    /\ IsZero(Dec(crc_iters))
    /\ crc_iters' = Dec(crc_iters)
    /\ crc_ret' = Resize(crc_acc, 8)
    /\ crc_pc' = "done"
    /\ UNCHANGED <<crc_acc, crc8_crc, crc8_data, crc_idx>>
    /\ UNCHANGED notCrc

CrcNext ==
    \/ CrcBenchCall
    \/ Crc8Call
    \/ Crc8Lookup
    \/ Crc8Return
    \/ CrcBenchAgain
    \/ CrcBenchReturn

(***************************************************************************)
(* mul_chain and mul_chain4.                                               *)
(***************************************************************************)
MulKernels == {"mul_chain", "mul_chain4"}

\* The values of the elements: 3 and 2^32 - 5.
MulSamples == {U32(3), FromHex(<<15, 15, 15, 15, 15, 15, 15, 11>>)}

\* uint32_t product = p1 * p2 * p3 * p4
Product4Bug(p) == Mul(Mul(p[1], p[2]), p[3])
Product4(p) == Mul(Mul(Mul(p[1], p[2]), p[3]), p[4])

MulIdle ==
    /\ mc_data = << >>
    /\ mc_kernel = "idle"
    /\ mc_i = 0
    /\ mc_product = U32(1)
    /\ mc_p = <<U32(1), U32(1), U32(1), U32(1)>>
    /\ mc_ret = [k \in MulKernels |-> << 0 >>]

MulStart ==
    /\ mc_data \in UNION {[1..n -> MulSamples] : n \in 0..(4 * MaxQuads)}
    /\ mc_kernel = "idle"
    /\ mc_i = 0
    /\ mc_product = U32(1)
    /\ mc_p = <<U32(1), U32(1), U32(1), U32(1)>>
    /\ mc_ret = [k \in MulKernels |-> NoRet]

\* A kernel is called with the array and its length.
MulCall(kern) ==
    /\ mc_kernel = "idle"
    /\ mc_ret[kern] = NoRet
    /\ mc_kernel' = kern
    /\ mc_i' = 0
    /\ mc_product' = U32(1)
    /\ mc_p' = <<U32(1), U32(1), U32(1), U32(1)>>
    /\ UNCHANGED <<mc_data, mc_ret>>
    /\ UNCHANGED notMul

\* mul_chain: product *= data[i].
MulChainStep ==
    /\ mc_kernel = "mul_chain"
    /\ mc_i < Len(mc_data)
    /\ mc_product' = Mul(mc_product, mc_data[mc_i + 1])
    /\ mc_i' = mc_i + 1
    /\ UNCHANGED <<mc_data, mc_kernel, mc_p, mc_ret>>
    /\ UNCHANGED notMul

MulChainReturn ==
    /\ mc_kernel = "mul_chain"
    /\ ~(mc_i < Len(mc_data))
    /\ mc_ret' = [mc_ret EXCEPT !["mul_chain"] = mc_product]
    /\ mc_kernel' = "idle"
    /\ UNCHANGED <<mc_data, mc_i, mc_product, mc_p>>
    /\ UNCHANGED notMul

\* mul_chain4: p1 *= data[i + 0] .. p4 *= data[i + 3].  An element past the
\* end of the array is whatever lies there, or the read faults.
MulChain4Step ==
    /\ mc_kernel = "mul_chain4"
    /\ mc_i < Len(mc_data)
    /\ \E faults \in BOOLEAN, x \in [1..4 -> MulSamples] :
          /\ \A j \in 1..4 : mc_i + j <= Len(mc_data) => x[j] = mc_data[mc_i + j]
          /\ faults => mc_i + 4 > Len(mc_data)
          /\ IF faults
             THEN mc_kernel' = "SIGSEGV" /\ UNCHANGED <<mc_i, mc_p>>
             ELSE /\ mc_p' = [j \in 1..4 |-> Mul(mc_p[j], x[j])]
                  /\ mc_i' = mc_i + 4
                  /\ UNCHANGED mc_kernel
    /\ UNCHANGED <<mc_data, mc_product, mc_ret>>
    /\ UNCHANGED notMul

MulChain4Return ==
    /\ mc_kernel = "mul_chain4"
    /\ ~(mc_i < Len(mc_data))
    /\ mc_ret' = [mc_ret EXCEPT !["mul_chain4"] = Product4(mc_p)]
    /\ mc_kernel' = "idle"
    /\ UNCHANGED <<mc_data, mc_i, mc_product, mc_p>>
    /\ UNCHANGED notMul

MulNext ==
    \/ \E kern \in MulKernels : MulCall(kern)
    \/ MulChainStep
    \/ MulChainReturn
    \/ MulChain4Step
    \/ MulChain4Return

(***************************************************************************)
(* add_indirect_inner and add_indirect_shift_inner.                        *)
(***************************************************************************)
AddKernels == {"add_indirect_inner", "add_indirect_shift_inner"}

\* The values of the data elements: 7 and 2^32 - 1.
AddSamples == {U32(7), FromHex(<<15, 15, 15, 15, 15, 15, 15, 15>>)}

\* The bytes of a value as they lie in memory, and the value of the bytes of
\* memory: least significant byte first on a little-endian machine, most
\* significant first on a big-endian one.
Rev(b) == Only({Vec([i \in 1..Len(x) |-> x[Len(x) + 1 - i]]) : x \in {b}})
ToMem(v, little) == IF little THEN v ELSE Rev(v)
FromMem(m, little) == IF little THEN m ELSE Rev(m)

\* std::memcpy(&twooffsets, offsets + i - 2, sizeof(uint64_t)): the 8 bytes
\* of offsets[i - 2] and offsets[i - 1], read as a uint64_t.  (The tuple
\* offsets starts at 1: offsets[i - 2] of the code is offsets[i - 1] here.)
Load64(offsets, i, little) ==
    FromMem(ToMem(offsets[i - 1], little) \o ToMem(offsets[i], little), little)

\* twooffsets >> 32 and twooffsets & 0xFFFFFFFF
HighHalfBug(two) == BitAnd(two, FromHex(<<0, 0, 0, 0, 0, 0, 0, 0, 15, 15, 15, 15, 15, 15, 15, 15>>))
HighHalf(two) == ShrBytes(two, 4)
LowHalf(two) == BitAnd(two, FromHex(<<0, 0, 0, 0, 0, 0, 0, 0, 15, 15, 15, 15, 15, 15, 15, 15>>))

\* data[index]
Element(data, index) == data[ToNat(index) + 1]

\* return sum1 + sum2
SumBug(sum1, sum2) == sum1
Sum(sum1, sum2) == Add(sum1, sum2)

AddIdle ==
    /\ ai_little = TRUE
    /\ ai_data = << >>
    /\ ai_offsets = << >>
    /\ ai_kernel = "idle"
    /\ ai_pc = "body"
    /\ ai_i = 0
    /\ ai_sum1 = U32(0)
    /\ ai_sum2 = U32(0)
    /\ ai_two = U64(0)
    /\ ai_adds = [k \in AddKernels |-> << >>]
    /\ ai_reads = << >>
    /\ ai_ret = [k \in AddKernels |-> << 0 >>]

\* The offsets: the first and the last index of data.
AddOffsets == {U32(0), U32(DataLen - 1)}

\* The length is even and at least 2 (the assert of add_indirect_inner), and
\* every offset is an index of data.
AddStart ==
    /\ ai_little \in BOOLEAN
    /\ ai_data \in [1..DataLen -> AddSamples]
    /\ ai_offsets \in UNION {[1..(2 * n) -> AddOffsets]
                                : n \in 1..MaxPairs}
    /\ ai_kernel = "idle"
    /\ ai_pc = "body"
    /\ ai_i = 0
    /\ ai_sum1 = U32(0)
    /\ ai_sum2 = U32(0)
    /\ ai_two = U64(0)
    /\ ai_adds = [k \in AddKernels |-> << >>]
    /\ ai_reads = << >>
    /\ ai_ret = [k \in AddKernels |-> NoRet]

aiArgs == <<ai_little, ai_data, ai_offsets>>

\* A kernel is called: sum1 = 0, sum2 = 0, i = len.
AddCall(kern) ==
    /\ ai_kernel = "idle"
    /\ ai_ret[kern] = NoRet
    /\ ai_kernel' = kern
    /\ ai_pc' = "body"
    /\ ai_i' = Len(ai_offsets)
    /\ ai_sum1' = U32(0)
    /\ ai_sum2' = U32(0)
    /\ ai_adds' = [ai_adds EXCEPT ![kern] = << >>]
    /\ ai_reads' = [j \in 1..Len(ai_offsets) |-> << >>]
    /\ UNCHANGED <<ai_two, ai_ret>>
    /\ UNCHANGED aiArgs
    /\ UNCHANGED notAdd

\* add_indirect_inner: sum1 += data[offsets[i - 1]];
\* sum2 += data[offsets[i - 2]]; i -= 2.
AddIndirectStep ==
    /\ ai_kernel = "add_indirect_inner"
    /\ ai_pc = "body"
    /\ LET o1 == ai_offsets[ai_i]
           o2 == ai_offsets[ai_i - 1]
       IN  /\ ai_sum1' = Add(ai_sum1, Element(ai_data, o1))
           /\ ai_sum2' = Add(ai_sum2, Element(ai_data, o2))
           /\ ai_adds' = [ai_adds EXCEPT ![ai_kernel] = Append(@, <<ToNat(o1), ToNat(o2)>>)]
    /\ ai_reads' = [ai_reads EXCEPT ![ai_i] = Append(@, "sum1"),
                                    ![ai_i - 1] = Append(@, "sum2")]
    /\ ai_i' = ai_i - 2
    /\ ai_pc' = "test"
    /\ UNCHANGED <<ai_kernel, ai_two, ai_ret>>
    /\ UNCHANGED aiArgs
    /\ UNCHANGED notAdd

\* add_indirect_shift_inner: the two offsets are loaded as one uint64_t;
\* sum1 += data[twooffsets >> 32]; sum2 += data[twooffsets & 0xFFFFFFFF];
\* i -= 2.
AddShiftStep ==
    /\ ai_kernel = "add_indirect_shift_inner"
    /\ ai_pc = "body"
    /\ LET twooffsets == Load64(ai_offsets, ai_i, ai_little)
       IN  /\ ai_two' = twooffsets
           /\ ai_sum1' = Add(ai_sum1, Element(ai_data, HighHalf(twooffsets)))
           /\ ai_sum2' = Add(ai_sum2, Element(ai_data, LowHalf(twooffsets)))
           /\ ai_adds' = [ai_adds EXCEPT ![ai_kernel] =
                             Append(@, <<ToNat(HighHalf(twooffsets)),
                                         ToNat(LowHalf(twooffsets))>>)]
    /\ ai_reads' = [ai_reads EXCEPT ![ai_i] = Append(@, "memcpy"),
                                    ![ai_i - 1] = Append(@, "memcpy")]
    /\ ai_i' = ai_i - 2
    /\ ai_pc' = "test"
    /\ UNCHANGED <<ai_kernel, ai_ret>>
    /\ UNCHANGED aiArgs
    /\ UNCHANGED notAdd

\* while (i): another pass.
AddAgain ==
    /\ ai_kernel \in AddKernels
    /\ ai_pc = "test"
    /\ ai_i # 0
    /\ ai_pc' = "body"
    /\ UNCHANGED <<ai_kernel, ai_i, ai_sum1, ai_sum2, ai_two, ai_adds, ai_reads, ai_ret>>
    /\ UNCHANGED aiArgs
    /\ UNCHANGED notAdd

\* i is 0: return sum1 + sum2.
AddReturn ==
    /\ ai_kernel \in AddKernels
    /\ ai_pc = "test"
    /\ ai_i = 0
    /\ ai_ret' = [ai_ret EXCEPT ![ai_kernel] = Sum(ai_sum1, ai_sum2)]
    /\ ai_kernel' = "idle"
    /\ UNCHANGED <<ai_pc, ai_i, ai_sum1, ai_sum2, ai_two, ai_adds, ai_reads>>
    /\ UNCHANGED aiArgs
    /\ UNCHANGED notAdd

AddNext ==
    \/ \E kern \in AddKernels : AddCall(kern)
    \/ AddIndirectStep
    \/ AddShiftStep
    \/ AddAgain
    \/ AddReturn

(***************************************************************************)
(* Specifications, one for each family of kernels.                          *)
(***************************************************************************)
otherIdle(own) ==
    /\ IF own = "div" THEN TRUE ELSE DivIdle
    /\ IF own = "list" THEN TRUE ELSE ListIdle
    /\ IF own = "store" THEN TRUE ELSE StoreIdle
    /\ IF own = "chain" THEN TRUE ELSE ChainIdle
    /\ IF own = "crc" THEN TRUE ELSE CrcIdle
    /\ IF own = "mul" THEN TRUE ELSE MulIdle
    /\ IF own = "add" THEN TRUE ELSE AddIdle

DivInit   == DivStart /\ otherIdle("div")
ListInit  == ListStart /\ otherIdle("list")
StoreInit == StoreStart /\ otherIdle("store")
ChainInit == ChainStart /\ otherIdle("chain")
CrcInit   == CrcStart /\ otherIdle("crc")
MulInit   == MulStart /\ otherIdle("mul")
AddInit   == AddStart /\ otherIdle("add")

SpecDiv   == DivInit /\ [][DivNext]_vars
SpecList  == ListInit /\ [][ListNext]_vars
SpecStore == StoreInit /\ [][StoreNext]_vars
SpecAddChain == ChainInit /\ [][AddChainNext]_vars
SpecCrc   == CrcInit /\ [][CrcNext]_vars
SpecMul   == MulInit /\ [][MulNext]_vars
SpecAdd   == AddInit /\ [][AddNext]_vars

\* The kernel runs on one thread that nothing preempts for ever: a step that
\* can be taken is taken.
SpecAddChainFair == SpecAddChain /\ WF_vars(AddChainNext)


\* C1: for every width and every iteration count n > 0 the four kernels
\* return the same value, and in every pass of every kernel the mixed-in term
\* (sum & zero) is 0, so that the divisor of iteration k is k.
C1_DivVariantsAgree ==
    /\ ~IsZero(div_iters) =>
           \A a, b \in DivKernels :
               (div_ret[a] # NoRet /\ div_ret[b] # NoRet) => div_ret[a] = div_ret[b]
    /\ div_kernel \in DivKernels =>
           /\ IsZero(BitAnd(div_sum, div_zero))
           /\ div_d = Dec(div_k)

\* All four kernels of a width returned, after more than one pass each, a
\* non-zero sum.
C1_Witness ==
    /\ \A a \in DivKernels : div_ret[a] # NoRet /\ ~IsZero(div_ret[a])
    /\ ULess(U64(1), div_iters)

\* C5: with the lists makeLists builds, linkedlist_counter(1) and
\* linkedlist_sentinel(1) both return LIST_COUNT x 1; for any count the two
\* return the same sum; and when the loop of sum_counter or sum_sentinel
\* ends it has read every node of the list exactly once, the chain from
\* head.first having exactly head.size nodes and ending in a null link.
C5_ListSumsAgree ==
    /\ ll_kernel # "SIGSEGV"
    /\ \A a, b \in ListKernels :
           (ll_ret[a] # NoRet /\ ll_ret[b] # NoRet) => ll_ret[a] = ll_ret[b]
    /\ list_iters = 1 =>
           \A a \in ListKernels : ll_ret[a] # NoRet => ll_ret[a] = Long(LIST_COUNT * 1)
    /\ (ll_kernel \in ListKernels /\ ll_pc = "sum" /\ ~SumTest) =>
           LET ch == Chain(heap, s_list.first)
           IN  /\ Len(ch) = s_list.size
               /\ heap[ch[Len(ch)]].next = NULL
               /\ \A a \in DOMAIN heap :
                      visits[a] = IF \E n \in 1..Len(ch) : ch[n] = a THEN 1 ELSE 0

\* Both kernels returned from a call with an iteration count of 1.
C5_Witness ==
    /\ list_iters = 1
    /\ \A a \in ListKernels : ll_ret[a] = Long(LIST_COUNT)

\* C2: every one of the four stores of a pass writes only bytes inside
\* [region, region + size), for any stride, element width and count.
C2_StoresInRegion ==
    (st_kernel = "strided_stores" /\ st_pc = "store") =>
        InRegion(st_base, st_T, st_size)

\* C9: every offset (i * stride) & mask is below the region size, also when
\* i * stride wraps modulo 2^64.
C9_OffsetInRegion ==
    (st_kernel = "strided_stores" /\ st_pc = "store") =>
        ULess(st_offset, U64(st_size))

\* A pass whose product i * stride does not fit 64 bits: i is 4 or more and
\* the stride 2^62 + 1 or 2^64 - 1.
C9_Witness ==
    /\ st_kernel = "strided_stores" /\ st_pc = "store"
    /\ ~IsZero(st_i)
    /\ ~IsSmall(st_stride)
    /\ ~IsZero(st_offset)

\* C3: called with a count that is a multiple of four, the
\* kernel terminates and returns 0: when it has stopped, it has returned 0.
C3_Mult4Returns0 ==
    (Mod4(pac_itersu) = 0 /\ pac_pc \in {"done", "trap"}) =>
        (pac_pc = "done" /\ IsZero(pac_ret))

\* A positive multiple of four below 2^63.
PosMult4(b) == Mod4(b) = 0 /\ ~IsZero(b) /\ b[8] < 128

\* C3, for the counts where it holds: called with a count that is a positive
\* multiple of four below 2^63, the kernel terminates and returns 0.
C3_PosMult4Terminates ==
    (pac_pc = "body" /\ PosMult4(pac_itersu)) ~> (pac_pc = "done" /\ IsZero(pac_ret))

\* A call with a count of 8 or more returned 0, after two passes or more.
C3_Witness ==
    /\ PosMult4(pac_itersu)
    /\ pac_pc = "done" /\ IsZero(pac_ret)
    /\ pac_passes >= 2

\* C4: called with a count that is not a multiple of four, the loop never
\* exits: at every loop test the counter is congruent to the count modulo
\* 4, so it is not 0, also once it is below zero.
C4_NeverZero ==
    Mod4(pac_itersu) # 0 =>
        /\ pac_pc # "done"
        /\ pac_pc = "check" =>
               (Mod4(pac_iters) = Mod4(pac_itersu) /\ ~IsZero(pac_iters))

\* A loop test with the counter below zero, the count not a multiple of four.
C4_Witness ==
    /\ Mod4(pac_itersu) # 0
    /\ pac_pc = "check"
    /\ pac_iters[8] >= 128
    /\ pac_itersu[8] < 128

\* C8: with the all-zero table crc8_bench returns 0 for every iteration
\* count >= 1 and every content of the buffer: after every table lookup the
\* accumulator is 0, and every index crc ^ byte is within 0..255.
C8_CrcZero ==
    /\ crc_pc # "SIGSEGV"
    /\ crc_pc = "done" => IsZero(crc_ret)
    /\ crc_idx # << >> =>
           /\ crc_idx[1] \in 0..255
           /\ IsZero(crc8_crc)
    /\ crc_pc = "test" => IsZero(crc_acc)

\* crc8_bench returned; the last byte read was 255.
C8_Witness ==
    /\ crc_pc = "done"
    /\ crc_ret = Long(0)
    /\ crc_idx = <<255>>

\* C6: mul_chain4 and mul_chain, called with the same array and length,
\* return the same product.
C6_SameProduct ==
    /\ mc_kernel # "SIGSEGV"
    /\ (mc_ret["mul_chain"] # NoRet /\ mc_ret["mul_chain4"] # NoRet) =>
           mc_ret["mul_chain"] = mc_ret["mul_chain4"]

\* C6, for the lengths where it holds: when the length is a multiple of
\* four, mul_chain4 and mul_chain, called with the same array and length,
\* return the same product.
C6_SameProductMult4 ==
    Len(mc_data) % 4 = 0 => C6_SameProduct

\* Both kernels returned the product of eight elements or more, not all the
\* same.
C6_Witness ==
    /\ Len(mc_data) >= 8
    /\ \E i, j \in DOMAIN mc_data : mc_data[i] # mc_data[j]
    /\ mc_ret["mul_chain"] # NoRet
    /\ mc_ret["mul_chain4"] = mc_ret["mul_chain"]

\* C7: with all offsets 0 and data[0] = v, add_indirect_inner returns
\* len * v modulo 2^32; when its loop ends, at i = 0, every element of
\* offsets has been read exactly once, len / 2 of them for each sum.
ReadBy(who) == {j \in DOMAIN ai_reads : ai_reads[j] = <<who>>}
C7_ZeroOffsets ==
    /\ (ai_ret["add_indirect_inner"] # NoRet
            /\ \A j \in DOMAIN ai_offsets : IsZero(ai_offsets[j])) =>
           ai_ret["add_indirect_inner"] = Mul(U32(Len(ai_offsets)), ai_data[1])
    /\ (ai_kernel = "add_indirect_inner" /\ ai_pc = "test") =>
           /\ ai_i \in 0..Len(ai_offsets)
           /\ 2 * Len(ai_adds[ai_kernel]) = Len(ai_offsets) - ai_i
           /\ ai_i = 0 =>
                  /\ 2 * Cardinality(ReadBy("sum1")) = Len(ai_offsets)
                  /\ 2 * Cardinality(ReadBy("sum2")) = Len(ai_offsets)

\* add_indirect_inner returned from a call with four offsets or more, all
\* 0, and data[0] = 2^32 - 1.
C7_Witness ==
    /\ ai_ret["add_indirect_inner"] # NoRet
    /\ Len(ai_offsets) >= 4
    /\ \A j \in DOMAIN ai_offsets : IsZero(ai_offsets[j])
    /\ ai_data[1] = BitNot(U32(0))

\* C10: add_indirect_shift_inner returns what add_indirect_inner returns,
\* for the same data, offsets and length; on a little-endian machine the
\* upper half of the loaded value is offsets[i - 1] and the lower half
\* offsets[i - 2], and the two sums add the same elements in both kernels.
C10_ShiftAgrees ==
    /\ (\A k \in AddKernels : ai_ret[k] # NoRet) =>
           /\ ai_ret["add_indirect_shift_inner"] = ai_ret["add_indirect_inner"]
           /\ ai_little =>
                  ai_adds["add_indirect_shift_inner"] = ai_adds["add_indirect_inner"]
    /\ (ai_kernel = "add_indirect_shift_inner" /\ ai_pc = "test" /\ ai_little) =>
           /\ HighHalf(ai_two) = Resize(ai_offsets[ai_i + 2], 8)
           /\ LowHalf(ai_two) = Resize(ai_offsets[ai_i + 1], 8)

\* Both kernels returned, on a little-endian machine, from calls with four
\* offsets or more whose last two differ and select different values.
C10_Witness ==
    /\ ai_little
    /\ \A k \in AddKernels : ai_ret[k] # NoRet
    /\ Len(ai_offsets) >= 4
    /\ ai_offsets[Len(ai_offsets)] # ai_offsets[Len(ai_offsets) - 1]
    /\ ai_data[1] # ai_data[2]

====
